---- MODULE Spec2Model ----
(***************************************************************************)
(* Debt Payoff Calculator (src/app.py): the amortization engine            *)
(* amortization_schedule, the per-debt calculation pass, the aggregated    *)
(* balance table and the per-debt what-if scenarios of the Streamlit       *)
(* script.                                                                 *)
(*                                                                         *)
(* NUMBERS.  The program computes in floats.  The model computes in exact  *)
(* rational arithmetic: a money amount is an integer count of 1/Scale      *)
(* money units and a monthly rate is a numerator over RateDen.  Every      *)
(* amount the loop can hold after k <= MaxMonth iterations is a multiple   *)
(* of Scale / RateDen^k, so balance * monthly_rate is computed without     *)
(* rounding up to the horizon MaxMonth.  Rounding effects of the float     *)
(* arithmetic are outside the model.                                       *)
(***************************************************************************)
EXTENDS Integers, Sequences, FiniteSets, TLC

\* ------------------------------------------------------------------------
\* Bounds of the model
\* ------------------------------------------------------------------------
MaxBal == 4
MaxPay == 3
MaxExtra == 1
RateDen == 2
MaxMonth == 8
MaxDebts == 2

Scale == RateDen ^ MaxMonth

Units(n) == n * Scale

\* the inputs of one call of amortization_schedule
Balances == {Units(b) : b \in (-1)..MaxBal}
RateNums == {-1, 0, 1}
Payments == {Units(p) : p \in 0..MaxPay}
Extras == {Units(e) : e \in (-1)..MaxExtra}

VARIABLES
    \* ---- one call of amortization_schedule
    pc,              \* "idle" | "start" | "loop" | "done" | "raised"
    balance0,        \* the balance argument as passed (the code overwrites it)
    balance,         \* the running balance
    monthly_rate,    \* numerator over RateDen
    payment,
    extra,
    month,
    total_interest,
    rows,            \* the schedule rows appended so far
    error,           \* the ValueError message, "" when none
    \* ---- the Streamlit script
    debts,           \* st.session_state.debts
    editing,         \* st.session_state.editing
    view             \* what the last run of the script rendered

engineVars == <<pc, balance0, balance, monthly_rate, payment, extra, month,
                total_interest, rows, error>>
appVars == <<debts, editing, view>>
vars == <<pc, balance0, balance, monthly_rate, payment, extra, month,
          total_interest, rows, error, debts, editing, view>>

\* ------------------------------------------------------------------------
\* Helpers
\* ------------------------------------------------------------------------
Min2(a, b) == IF a <= b THEN a ELSE b

Max2(a, b) == IF a >= b THEN a ELSE b

RECURSIVE SumOf(_, _)
SumOf(s, col) == IF s = <<>> THEN 0 ELSE s[1][col] + SumOf(Tail(s), col)

\* ------------------------------------------------------------------------
\* amortization_schedule (src/app.py:23-51)
\* ------------------------------------------------------------------------
ErrBalance == "Balance must be > 0"
ErrPayment == "Payment too low to cover interest"

\* balance * monthly_rate
Interest(bal, rate) == (bal * rate) \div RateDen

\* line 31
BalanceInvalid(bal) == bal <= 0

\* line 33 with < for <=: a payment equal to the interest is let through
PaymentTooLowStrict(bal, rate, pay, ext) ==
    pay + ext < Interest(bal, rate) /\ rate > 0

\* line 33
PaymentTooLow(bal, rate, pay, ext) ==
    pay + ext <= Interest(bal, rate) /\ rate > 0

\* line 40 without line 41: the last month is not capped at the balance
PrincipalNoClamp(bal, pay, ext, interest) == pay + ext - interest

\* lines 40-41
Principal(bal, pay, ext, interest) == Min2(pay + ext - interest, bal)

\* line 37 leaving the loop once no more than one money unit is owed
LoopCondTolerance(bal) == bal > Units(1)

\* line 37
LoopCond(bal) == bal > 0

\* lines 38-50: one iteration, on the loop's locals
LoopBody(st, rate, pay, ext) ==
    LET m == st.month + 1
        interest == Interest(st.balance, rate)
        principal == Principal(st.balance, pay, ext, interest)
        bal == st.balance - principal
    IN  [balance |-> bal,
         month |-> m,
         total_interest |-> st.total_interest + interest,
         rows |-> Append(st.rows,
                         [Month |-> m,
                          Payment |-> pay + ext,
                          Principal |-> principal,
                          Interest |-> interest,
                          Balance |-> bal])]

\* line 36
LoopInit(bal) ==
    [balance |-> bal, month |-> 0, total_interest |-> 0, rows |-> <<>>]

Locals == [balance |-> balance, month |-> month,
           total_interest |-> total_interest, rows |-> rows]

\* lines 31-36: the two checks, then the locals
Validate ==
    /\ pc = "start"
    /\ IF BalanceInvalid(balance)
       THEN /\ pc' = "raised"
            /\ error' = ErrBalance
            /\ UNCHANGED <<month, total_interest, rows>>
       ELSE IF PaymentTooLow(balance, monthly_rate, payment, extra)
       THEN /\ pc' = "raised"
            /\ error' = ErrPayment
            /\ UNCHANGED <<month, total_interest, rows>>
       ELSE /\ pc' = "loop"
            /\ month' = LoopInit(balance).month
            /\ total_interest' = LoopInit(balance).total_interest
            /\ rows' = LoopInit(balance).rows
            /\ UNCHANGED error
    /\ UNCHANGED <<balance0, balance, monthly_rate, payment, extra>>
    /\ UNCHANGED appVars

\* lines 37-50: one iteration of the while loop
LoopStep ==
    /\ pc = "loop"
    /\ LoopCond(balance)
    /\ month < MaxMonth
    /\ LET st == LoopBody(Locals, monthly_rate, payment, extra)
       IN  /\ balance' = st.balance
           /\ month' = st.month
           /\ total_interest' = st.total_interest
           /\ rows' = st.rows
    /\ UNCHANGED <<pc, balance0, monthly_rate, payment, extra, error>>
    /\ UNCHANGED appVars

\* lines 37-50 past the horizon: the loop keeps iterating, its further rows
\* are not recorded
LoopBeyond ==
    /\ pc = "loop"
    /\ LoopCond(balance)
    /\ month = MaxMonth
    /\ UNCHANGED vars

\* line 51: the loop condition fails and the call returns
Return ==
    /\ pc = "loop"
    /\ ~LoopCond(balance)
    /\ pc' = "done"
    /\ UNCHANGED <<balance0, balance, monthly_rate, payment, extra, month,
                   total_interest, rows, error>>
    /\ UNCHANGED appVars

AppIdle ==
    /\ debts = <<>>
    /\ editing = FALSE
    /\ view = [stage |-> "none"]

Init ==
    /\ pc = "start"
    /\ balance0 \in Balances
    /\ balance = balance0
    /\ monthly_rate \in RateNums
    /\ payment \in Payments
    /\ extra \in Extras
    /\ month = 0
    /\ total_interest = 0
    /\ rows = <<>>
    /\ error = ""
    /\ AppIdle

Next == Validate \/ LoopStep \/ LoopBeyond \/ Return

Spec == Init /\ [][Next]_vars

\* the interpreter runs the call to its end: no step is postponed forever
FairSpec == Init /\ [][Next]_vars /\ WF_vars(Next)

\* ------------------------------------------------------------------------
\* amortization_schedule as one call (src/app.py:23-51), for the script
\* ------------------------------------------------------------------------
Outcome(status, st, msg) ==
    [status |-> status, rows |-> st.rows,
     total_interest |-> st.total_interest, error |-> msg]

\* lines 37-51; "running": the loop has not left by the horizon
RECURSIVE RunLoop(_, _, _, _)
RunLoop(st, rate, pay, ext) ==
    IF ~LoopCond(st.balance) THEN Outcome("returned", st, "")
    ELSE IF st.month = MaxMonth THEN Outcome("running", st, "")
    ELSE RunLoop(LoopBody(st, rate, pay, ext), rate, pay, ext)

amortization_schedule(bal, rate, pay, ext) ==
    IF BalanceInvalid(bal) THEN Outcome("raised", LoopInit(bal), ErrBalance)
    ELSE IF PaymentTooLow(bal, rate, pay, ext)
    THEN Outcome("raised", LoopInit(bal), ErrPayment)
    ELSE RunLoop(LoopInit(bal), rate, pay, ext)

\* ------------------------------------------------------------------------
\* The debts table (src/app.py:61-83)
\* ------------------------------------------------------------------------
\* a name is a string, modelled as a sequence of characters
UnnamedDebt == <<"U", "n", "n", "a", "m", "e", "d", " ", "D", "e", "b", "t">>

\* "Annual Rate (%)" holding the monthly rate n / RateDen
AnnualPct(n) == (1200 \div RateDen) * n

\* r["Annual Rate (%)"] / 100 / 12, as a numerator over RateDen
MonthlyRate(annual) == (annual * RateDen) \div 1200

\* DEFAULT, in the model's units and alphabet: one debt at a positive rate
\* whose minimum and monthly payments exceed the first month's interest
DEFAULT ==
    << [Name |-> <<"A">>,
        Balance |-> Units(1),
        AnnualRate |-> AnnualPct(1),
        MinimumPayment |-> Units(1),
        MonthlyPayment |-> Units(1)] >>

\* the values the data editor can put into a cell
Names == {<<"A">>, <<" ", "A">>, <<>>}

CellValues ==
    [Name |-> Names,
     Balance |-> {Units(1), Units(3)},
     AnnualRate |-> {AnnualPct(0), AnnualPct(1)},
     MinimumPayment |-> {Units(1)},
     MonthlyPayment |-> {Units(0), Units(1)}]

DebtRows ==
    [Name : CellValues.Name,
     Balance : CellValues.Balance,
     AnnualRate : CellValues.AnnualRate,
     MinimumPayment : CellValues.MinimumPayment,
     MonthlyPayment : CellValues.MonthlyPayment]

\* num_rows="dynamic": the table with a row added at the end, a row
\* deleted, or one cell changed; or the table as it is
Edits(table) ==
    {table}
    \cup {Append(table, r) : r \in {x \in DebtRows : Len(table) < MaxDebts}}
    \cup {SubSeq(table, 1, i - 1) \o SubSeq(table, i + 1, Len(table)) :
            i \in 1..Len(table)}
    \cup UNION {UNION {{[table EXCEPT ![i][c] = v] : v \in CellValues[c]} :
                       c \in DOMAIN CellValues} : i \in 1..Len(table)}

\* ------------------------------------------------------------------------
\* The calculation pass (src/app.py:138-173)
\* ------------------------------------------------------------------------
IsSpace(c) == c = " "

RECURSIVE LStrip(_)
LStrip(s) == IF s # <<>> /\ IsSpace(Head(s)) THEN LStrip(Tail(s)) ELSE s

RECURSIVE RStrip(_)
RStrip(s) ==
    IF s # <<>> /\ IsSpace(s[Len(s)])
    THEN RStrip(SubSeq(s, 1, Len(s) - 1))
    ELSE s

Strip(s) == RStrip(LStrip(s))

\* line 149: str(r["Name"]).strip() or "Unnamed Debt"
DebtName(raw) == IF Strip(raw) = <<>> THEN UnnamedDebt ELSE Strip(raw)

\* a dict in insertion order, as a sequence of [key, df]
Keys(d) == [i \in 1..Len(d) |-> d[i].key]

HasKey(d, k) == \E i \in 1..Len(d) : d[i].key = k

Get(d, k) == d[CHOOSE i \in 1..Len(d) : d[i].key = k].df

\* d[k] = df
Put(d, k, df) ==
    IF HasKey(d, k)
    THEN [i \in 1..Len(d) |-> IF d[i].key = k THEN [key |-> k, df |-> df] ELSE d[i]]
    ELSE Append(d, [key |-> k, df |-> df])

\* lines 144-146
PassInit ==
    [schedules_min |-> <<>>, schedules_act |-> <<>>,
     min_interest_total |-> 0, act_interest_total |-> 0,
     max_months_act |-> 0, errors |-> <<>>, running |-> FALSE]

\* lines 149-169: the loop body for one row r
PassRow(acc, r) ==
    LET name == DebtName(r.Name)
        bal == r.Balance
        rate_m == MonthlyRate(r.AnnualRate)
        p_min == r.MinimumPayment
        p_act == r.MonthlyPayment
        rmin == amortization_schedule(bal, rate_m, p_min, 0)
        ract == amortization_schedule(bal, rate_m, p_act, 0)
        afterMin == [acc EXCEPT
                       !.schedules_min = Put(@, name, rmin.rows),
                       !.min_interest_total = @ + rmin.total_interest]
    IN  IF rmin.status = "running" THEN [acc EXCEPT !.running = TRUE]
        ELSE IF rmin.status = "raised"
        THEN [acc EXCEPT !.errors =
                Append(@, [name |-> name, plan |-> "minimum", msg |-> rmin.error])]
        ELSE IF ract.status = "running" THEN [afterMin EXCEPT !.running = TRUE]
        ELSE IF ract.status = "raised"
        THEN [afterMin EXCEPT !.errors =
                Append(@, [name |-> name, plan |-> "actual", msg |-> ract.error])]
        ELSE [afterMin EXCEPT
                !.schedules_act = Put(@, name, ract.rows),
                !.act_interest_total = @ + ract.total_interest,
                !.max_months_act = Max2(@, Len(ract.rows))]

\* line 148: for _, r in debts.iterrows(); a call that never returns ends it
RECURSIVE Pass(_, _)
Pass(acc, table) ==
    IF table = <<>> \/ acc.running THEN acc
    ELSE Pass(PassRow(acc, Head(table)), Tail(table))

\* ------------------------------------------------------------------------
\* The aggregated balance table (src/app.py:194-199)
\* ------------------------------------------------------------------------
\* a cell of the concatenated frame: NaN, or Val(x) for the number x
NaN == <<>>

Val(x) == <<x>>

RECURSIVE SumSeq(_)
SumSeq(s) == IF s = <<>> THEN 0 ELSE Head(s) + SumSeq(Tail(s))

SetMax(S) == CHOOSE x \in S : \A y \in S : y <= x

\* the index of an inner join: only the months every schedule has
IndexIntersection(d) ==
    {m \in 1..MaxMonth : \A i \in 1..Len(d) : m <= Len(d[i].df)}

\* the index of pd.concat(..., axis=1): the union of the Month indices
IndexUnion(d) == UNION {{d[i].df[j].Month : j \in 1..Len(d[i].df)} : i \in 1..Len(d)}

\* pd.concat({n: df.set_index("Month")["Balance"]}, axis=1): one column per
\* key, NaN where the schedule has no such month
ConcatBalances(d) ==
    [m \in IndexUnion(d) |->
        [i \in 1..Len(d) |->
            IF \E j \in 1..Len(d[i].df) : d[i].df[j].Month = m
            THEN Val(d[i].df[CHOOSE j \in 1..Len(d[i].df) :
                                 d[i].df[j].Month = m].Balance)
            ELSE NaN]]

\* .ffill(): a NaN takes the last value above it in its column, if any
Ffill(t) ==
    [m \in DOMAIN t |->
        [i \in DOMAIN t[m] |->
            LET above == {j \in DOMAIN t : j < m /\ t[j][i] # NaN}
            IN  IF t[m][i] # NaN \/ above = {} THEN t[m][i]
                ELSE t[SetMax(above)][i]]]

\* .fillna(0.0)
FillNa(t) ==
    [m \in DOMAIN t |->
        [i \in DOMAIN t[m] |-> IF t[m][i] = NaN THEN 0 ELSE t[m][i][1]]]

\* lines 194-199: the columns in key order, then "Total Balance"
BalancesDf(d) ==
    LET t == FillNa(Ffill(ConcatBalances(d)))
    IN  [m \in DOMAIN t |-> [cols |-> t[m], Total |-> SumSeq(t[m])]]

\* ------------------------------------------------------------------------
\* The what-if section (src/app.py:223-263)
\* ------------------------------------------------------------------------
Scenarios == {"Pay off now", "Extra monthly payment",
              "Lower interest rate (refinance)", "Increase monthly payment"}

NoWhatIf ==
    [status |-> "none", sel_name |-> <<>>, scenario |-> "", param |-> 0,
     base_df |-> <<>>, row |-> <<>>, variant |-> <<>>,
     months_saved |-> 0, interest_saved |-> 0]

\* line 225: debts[debts["Name"] == sel_name]
Matching(table, sel_name) ==
    SelectSeq(table, LAMBDA r : r.Name = sel_name)

\* lines 240-263: the metrics of one scenario; param is the number typed in
Scenario(w, bal, annual_rate, monthly_payment, base_interest) ==
    LET monthly_rate_ == MonthlyRate(annual_rate)
        call ==
            IF w.scenario = "Extra monthly payment"
            THEN amortization_schedule(bal, monthly_rate_, monthly_payment, w.param)
            ELSE IF w.scenario = "Lower interest rate (refinance)"
            THEN amortization_schedule(bal, MonthlyRate(w.param), monthly_payment, 0)
            ELSE amortization_schedule(bal, monthly_rate_, w.param, 0)
        called ==
            \/ w.scenario = "Extra monthly payment" /\ w.param > 0
            \/ w.scenario = "Lower interest rate (refinance)" /\ w.param # annual_rate
            \/ w.scenario = "Increase monthly payment" /\ w.param > monthly_payment
    IN  IF w.scenario = "Pay off now"
        THEN [w EXCEPT !.status = "ok", !.interest_saved = base_interest]
        ELSE IF ~called THEN [w EXCEPT !.status = "ok"]
        ELSE IF call.status # "returned"
        THEN [w EXCEPT !.status = IF call.status = "raised" THEN "ValueError"
                                  ELSE "running"]
        ELSE [w EXCEPT
                !.status = "ok",
                !.variant = call.rows,
                !.months_saved =
                    IF w.scenario = "Lower interest rate (refinance)" THEN 0
                    ELSE Len(w.base_df) - Len(call.rows),
                !.interest_saved = base_interest - call.total_interest]

\* lines 223-231, then the scenario
WhatIfSection(table, schedules_act, sel_name, scenario, param) ==
    LET base_df == Get(schedules_act, sel_name)
        found == Matching(table, sel_name)
        w == [NoWhatIf EXCEPT !.sel_name = sel_name, !.scenario = scenario,
                              !.param = param, !.base_df = base_df]
    IN  IF found = <<>> THEN [w EXCEPT !.status = "IndexError"]
        ELSE Scenario([w EXCEPT !.row = <<found[1]>>],
                      found[1].Balance, found[1].AnnualRate,
                      found[1].MonthlyPayment, SumOf(base_df, "Interest"))

\* ------------------------------------------------------------------------
\* One run of the script (src/app.py:112-263)
\* ------------------------------------------------------------------------
BlankView(stage) ==
    [stage |-> stage, errors |-> <<>>, schedules_act |-> <<>>,
     max_months_act |-> 0, act_interest_total |-> 0,
     interest_saved_total |-> 0, monthly_payment_sum |-> 0,
     minimum_payment_sum |-> 0, balances_df |-> <<>>, whatif |-> NoWhatIf]

\* the widgets of the what-if section: widgets.sel_name = <<>> and
\* widgets.scenario = "" stand for widgets not touched yet, which show
\* their first option
Untouched == [sel_name |-> <<>>, scenario |-> "", param |-> 0]

Script(table, isEditing, widgets) ==
    LET acc == Pass(PassInit, table)
        keys == Keys(acc.schedules_act)
        sel == IF widgets.scenario = "" THEN keys[1] ELSE widgets.sel_name
        scen == IF widgets.scenario = "" THEN "Pay off now" ELSE widgets.scenario
    IN  IF isEditing THEN BlankView("editing")
        ELSE IF table = <<>> THEN BlankView("info")
        ELSE IF acc.running THEN BlankView("running")
        ELSE IF acc.errors # <<>>
        THEN [BlankView("errors") EXCEPT !.errors = acc.errors]
        ELSE [BlankView("dashboard") EXCEPT
                !.schedules_act = acc.schedules_act,
                !.max_months_act = acc.max_months_act,
                !.act_interest_total = acc.act_interest_total,
                !.interest_saved_total =
                    acc.min_interest_total - acc.act_interest_total,
                !.monthly_payment_sum = SumOf(table, "MonthlyPayment"),
                !.minimum_payment_sum = SumOf(table, "MinimumPayment"),
                !.balances_df = BalancesDf(acc.schedules_act),
                !.whatif = WhatIfSection(table, acc.schedules_act, sel, scen,
                                         widgets.param)]

EngineIdle ==
    /\ pc = "idle"
    /\ balance0 = 0
    /\ balance = 0
    /\ monthly_rate = 0
    /\ payment = 0
    /\ extra = 0
    /\ month = 0
    /\ total_interest = 0
    /\ rows = <<>>
    /\ error = ""

\* lines 72-75 and the first run
AppInit ==
    /\ EngineIdle
    /\ debts = DEFAULT
    /\ editing = FALSE
    /\ view = Script(DEFAULT, FALSE, Untouched)

\* lines 126-128: the Edit button, then the rerun
ClickEdit ==
    /\ ~editing
    /\ editing' = TRUE
    /\ view' = Script(debts, TRUE, Untouched)
    /\ UNCHANGED debts
    /\ UNCHANGED engineVars

\* lines 114-123: the Save button with the edited table, then the rerun
ClickSave(edited_df) ==
    /\ editing
    /\ debts' = edited_df
    /\ editing' = FALSE
    /\ view' = Script(edited_df, FALSE, Untouched)
    /\ UNCHANGED engineVars

\* the numbers the user can type into a scenario's number input
Params(w, scenario) ==
    IF scenario = "Pay off now" THEN {0}
    ELSE IF scenario = "Extra monthly payment" THEN {Units(0), Units(1)}
    ELSE IF scenario = "Lower interest rate (refinance)"
    THEN {AnnualPct(0), AnnualPct(1)}
    ELSE IF w.row = <<>> THEN {0}
    ELSE {w.row[1].MonthlyPayment, w.row[1].MonthlyPayment + Units(1)}

\* lines 223-263: the user picks a debt, a scenario and its number; the
\* script reruns
WhatIf(sel_name, scenario, param) ==
    /\ ~editing
    /\ view.stage = "dashboard"
    /\ HasKey(view.schedules_act, sel_name)
    /\ view' = Script(debts, FALSE,
                      [sel_name |-> sel_name, scenario |-> scenario,
                       param |-> param])
    /\ UNCHANGED <<debts, editing>>
    /\ UNCHANGED engineVars

AppNext ==
    \/ ClickEdit
    \/ \E t \in Edits(debts) : ClickSave(t)
    \/ \E n \in {DebtName(r) : r \in Names}, s \in Scenarios :
          \E x \in Params(view.whatif, s) : WhatIf(n, s, x)

AppSpec == AppInit /\ [][AppNext]_vars

\* ------------------------------------------------------------------------
\* Integrity of the model's arithmetic and horizon
\* ------------------------------------------------------------------------
\* balance * monthly_rate is computed without rounding in every iteration
ExactArithmetic ==
    (pc = "loop" /\ LoopCond(balance) /\ month < MaxMonth)
        => (balance * monthly_rate) % RateDen = 0

\* a call still iterating at the horizon is one that never returns: with
\* monthly_rate <= 0 and payment + extra <= 0 the balance never reaches 0
HorizonAdequate ==
    (pc = "loop" /\ LoopCond(balance) /\ month = MaxMonth)
        => (monthly_rate <= 0 /\ payment + extra <= 0)

\* ------------------------------------------------------------------------
\* Claims about amortization_schedule
\* ------------------------------------------------------------------------
LastBalance == rows[Len(rows)].Balance

Ceil(a, b) == (a + b - 1) \div b

C1_Pre ==
    /\ balance0 > 0
    /\ monthly_rate >= 0
    /\ extra = 0
    /\ (payment > Interest(balance0, monthly_rate) \/ monthly_rate = 0)

\* C1: every call with balance > 0, monthly_rate >= 0 and payment above
\* balance * monthly_rate, or monthly_rate = 0, eventually returns, and the
\* Balance of its last row is 0.
C1_Terminates ==
    C1_Pre => <>(pc = "done" /\ rows # <<>> /\ LastBalance = 0)

\* C1 restricted to payment > balance * monthly_rate, which at
\* monthly_rate = 0 means payment > 0: the call returns with a last Balance
\* of 0.
C1_TerminatesWhenPaymentCoversInterest ==
    (/\ balance0 > 0
     /\ monthly_rate >= 0
     /\ payment + extra > Interest(balance0, monthly_rate))
        => <>(pc = "done" /\ rows # <<>> /\ LastBalance = 0)

\* C2: once the checks have run, a call with monthly_rate > 0 and
\* payment + extra <= balance * monthly_rate (equality included) has raised
\* and has emitted no row.
C2_InsufficientPaymentRaises ==
    (/\ pc # "start"
     /\ monthly_rate > 0
     /\ payment + extra <= Interest(balance0, monthly_rate))
        => (pc = "raised" /\ rows = <<>>)

C2_Witness ==
    /\ pc = "raised"
    /\ error = ErrPayment
    /\ balance0 > 0
    /\ monthly_rate > 0
    /\ payment + extra = Interest(balance0, monthly_rate)

\* C3: in every returned schedule the Principal column sums to the balance
\* passed in and the Interest column sums to the returned total_interest.
C3_Conservation ==
    pc = "done"
        => /\ SumOf(rows, "Principal") = balance0
           /\ SumOf(rows, "Interest") = total_interest

\* a returned schedule of several rows at a positive rate whose last row's
\* principal was capped at the remaining balance
C3_Witness ==
    /\ pc = "done"
    /\ monthly_rate > 0
    /\ Len(rows) >= 3
    /\ rows[Len(rows)].Principal
         < rows[Len(rows)].Payment - rows[Len(rows)].Interest

\* C4: for an accepted call with monthly_rate >= 0 and payment + extra above
\* the first month's interest, every row has Balance >= 0 and Interest >= 0,
\* and no row's Balance exceeds the Balance before it (the starting balance
\* for the first row).
C4_BalanceMonotone ==
    (/\ balance0 > 0
     /\ monthly_rate >= 0
     /\ payment + extra > Interest(balance0, monthly_rate))
        => \A i \in 1..Len(rows) :
              /\ rows[i].Balance >= 0
              /\ rows[i].Interest >= 0
              /\ rows[i].Balance
                   <= (IF i = 1 THEN balance0 ELSE rows[i - 1].Balance)

C4_Witness ==
    /\ pc = "done"
    /\ monthly_rate > 0
    /\ extra > 0
    /\ Len(rows) >= 3
    /\ rows[2].Balance < rows[1].Balance
    /\ rows[1].Balance < balance0

\* C5: once the checks have run, a call with extra < 0 has raised and has
\* emitted no row.
C5_NegativeExtraRaises ==
    (pc # "start" /\ extra < 0) => (pc = "raised" /\ rows = <<>>)

\* C6: once the checks have run, a call with monthly_rate < 0 and
\* balance > 0 has raised and has emitted no row.
C6_NegativeRateRaises ==
    (pc # "start" /\ monthly_rate < 0 /\ balance0 > 0)
        => (pc = "raised" /\ rows = <<>>)

\* C7, the engine alone: a returned call with monthly_rate >= 0 and
\* extra >= 0 has no more rows and no more total interest than the call with
\* any smaller extra e1 >= 0 that is above the first month's interest, and
\* that call returns too.
C7_EngineMonotone ==
    (pc = "done" /\ monthly_rate >= 0 /\ extra >= 0)
        => \A e1 \in Extras :
              (/\ 0 <= e1
               /\ e1 <= extra
               /\ payment + e1 > Interest(balance0, monthly_rate))
                 => LET other == amortization_schedule(
                                     balance0, monthly_rate, payment, e1)
                    IN  /\ other.status = "returned"
                        /\ Len(rows) <= Len(other.rows)
                        /\ total_interest <= other.total_interest

C8_Pre ==
    /\ monthly_rate = 0
    /\ balance0 > 0
    /\ payment > 0
    /\ extra = 0

ExtraView ==
    /\ view.stage = "dashboard"
    /\ view.whatif.scenario = "Extra monthly payment"
    /\ view.whatif.status = "ok"
    /\ view.whatif.param > 0

\* C7: where the script shows the 'Extra monthly payment' scenario, the
\* schedule with the extra has no more rows and no more total interest than
\* the schedule of the same balance, rate and payment without it, and the
\* Months Saved and Interest Saved it reports are not negative.
C7_ExtraNeverWorse ==
    ExtraView
        => LET r == view.whatif.row[1]
               plain == amortization_schedule(
                            r.Balance, MonthlyRate(r.AnnualRate),
                            r.MonthlyPayment, 0)
           IN  /\ Len(view.whatif.variant) <= Len(plain.rows)
               /\ SumOf(view.whatif.variant, "Interest") <= plain.total_interest
               /\ view.whatif.months_saved >= 0
               /\ view.whatif.interest_saved >= 0

SeqMax(s) == IF s = <<>> THEN 0 ELSE SetMax({s[i] : i \in 1..Len(s)})

ScheduleLengths(d) == [i \in 1..Len(d) |-> Len(d[i].df)]

\* C9: the balance table has one row for every month from 1 to the longest
\* actual-payment schedule; a debt's column holds its schedule's Balance in
\* the months of its schedule and 0 in every later month; Total Balance is
\* the sum of the columns of that month.
C9_AggregateTable ==
    view.stage = "dashboard"
        => LET d == view.schedules_act
               t == view.balances_df
           IN  /\ DOMAIN t = 1..SeqMax(ScheduleLengths(d))
               /\ \A m \in DOMAIN t :
                     /\ DOMAIN t[m].cols = 1..Len(d)
                     /\ \A i \in 1..Len(d) :
                           t[m].cols[i] = IF m <= Len(d[i].df)
                                          THEN d[i].df[m].Balance
                                          ELSE 0
                     /\ t[m].Total = SumSeq(t[m].cols)

\* two debts with schedules of different lengths, the longer one still owing
\* in a month after the shorter one is paid off
C9_Witness ==
    /\ view.stage = "dashboard"
    /\ Len(view.schedules_act) = 2
    /\ \E m \in DOMAIN view.balances_df :
          /\ m > 1
          /\ m < SeqMax(ScheduleLengths(view.schedules_act))
          /\ \E i, j \in 1..2 :
                /\ Len(view.schedules_act[i].df) < m
                /\ view.balances_df[m].cols[i] = 0
                /\ view.balances_df[m].cols[j] > 0
                /\ view.balances_df[m].Total > 0

\* C10: whenever the what-if section is reached, the selected name is found
\* in the debts table, and base_df is the schedule amortization_schedule
\* gives for the balance, annual rate and monthly payment of the row found.
C10_BaselineOfSameDebt ==
    view.stage = "dashboard"
        => /\ view.whatif.status # "IndexError"
           /\ LET r == view.whatif.row[1]
              IN  view.whatif.base_df =
                     amortization_schedule(
                         r.Balance, MonthlyRate(r.AnnualRate),
                         r.MonthlyPayment, 0).rows

====
